---- MODULE Spec2Model ----
(***************************************************************************)
(* A model of the rules engine of rbtying/skull: the roster (Players), the *)
(* count-only Hand, and the Placement, Bidding and Selection phases.       *)
(* Every operation is a pure function of an immutable snapshot; an action  *)
(* of the model applies one operation to the current snapshot and records  *)
(* what the call returned in `result`.                                     *)
(***************************************************************************)
EXTENDS Integers, Sequences, FiniteSets, TLC

VARIABLES
    phase,            \* which GameState variant the snapshot is
    players,          \* the Players struct
    hands,            \* HashMap<PlayerID, Hand>
    cards,            \* HashMap<PlayerID, Vec<Card>>
    bids,             \* Bidding.bids: HashMap<PlayerID, Bid>
    current_player,   \* Placement.current_player / Bidding.current_player
    selector,         \* Selection.selector
    goal,             \* Selection.goal
    found,            \* Selection.found
    result,           \* the last call: an accepted call with its arguments, or
                      \* the operation and the error of a rejected call
    highest           \* history: the largest Amount accepted in this Bidding

vars == <<phase, players, hands, cards, bids, current_player,
          selector, goal, found, result, highest>>

----------------------------------------------------------------------------
(* Bounds of the model *)

\* Largest PlayerID the roster operations allocate.
MaxIDs == 2
\* Largest total number of cards committed to the stacks in one Placement.
MaxStacked == 2
\* Largest amount offered to Placement.bid / Bidding.make_bid / Selection::new.
MaxAmount == 2
\* The names of the members of a game's roster, in the order they joined.
PlayerNames == <<"alice", "bob", "carol">>

----------------------------------------------------------------------------
(* Primitive types: src/core/src/types/mod.rs *)

PlayerIDs == 1..Len(PlayerNames)
\* Option::<PlayerID>::None
NoPlayer == 0

Card == {"Flower", "Skull"}
Score == {"Zero", "WonOne", "WonGame"}

\* The longest accepted player name.
MaxNameLen == 128
LongName == "a-name-of-129-characters"
Names == {"alice", "bob", "carol"}
\* String::len of the names the model uses.
NameLen(name) == IF name = LongName THEN MaxNameLen + 1 ELSE 5

\* Bid, and None for Option<Bid>.
Pass == [kind |-> "Pass", n |-> 0]
Amount(n) == [kind |-> "Amount", n |-> n]
NoBid == [kind |-> "None", n |-> 0]

\* HashMap helpers: a map is a function on the set of its keys.
EmptyMap == [k \in {} |-> 0]
Get(m, k, none) == IF k \in DOMAIN m THEN m[k] ELSE none
Insert(m, k, v) == [q \in (DOMAIN m) \cup {k} |-> IF q = k THEN v ELSE m[q]]
Remove(m, k) == [q \in (DOMAIN m) \ {k} |-> m[q]]

\* Iterator::position, 1-based; 0 stands for None.
Position(s, x) ==
    IF \E i \in 1..Len(s) : s[i] = x
    THEN CHOOSE i \in 1..Len(s) : s[i] = x /\ \A j \in 1..(i - 1) : s[j] # x
    ELSE 0

\* Vec::remove(idx), 1-based.
RemoveAt(s, idx) == [i \in 1..(Len(s) - 1) |-> IF i < idx THEN s[i] ELSE s[i + 1]]

\* Vec::retain(|p| *p != x)
RECURSIVE Retain(_, _)
Retain(s, x) ==
    IF s = <<>> THEN <<>>
    ELSE IF Head(s) = x THEN Retain(Tail(s), x)
    ELSE <<Head(s)>> \o Retain(Tail(s), x)

RECURSIVE SumLen(_, _)
SumLen(m, ks) ==
    IF ks = {} THEN 0
    ELSE LET k == CHOOSE x \in ks : TRUE IN Len(m[k]) + SumLen(m, ks \ {k})

SetMax(S) == IF S = {} THEN 0 ELSE CHOOSE x \in S : \A y \in S : y <= x

----------------------------------------------------------------------------
(* Hand: src/core/src/types/mod.rs *)

HandNumCards == 4
HandMaxFlowers == 3

Hand_new == [num_cards |-> HandNumCards, has_skull |-> TRUE]
NoHand == [num_cards |-> 0, has_skull |-> FALSE]

num_skulls(h) == IF h.has_skull THEN 1 ELSE 0
num_flowers(h) == h.num_cards - num_skulls(h)

from_single_card(card) == [num_cards |-> 1, has_skull |-> (card = "Skull")]

\* remove_card that leaves has_skull as it was when the Skull is removed.
remove_card_keeps_skull(h, card) ==
    LET has_card == \/ (card = "Skull" /\ h.has_skull)
                    \/ (card = "Flower" /\ num_flowers(h) > 0)
    IN  IF ~has_card THEN [err |-> "CardNotFound", hand |-> h]
        ELSE IF h.num_cards > 1
        THEN [err |-> "Ok", hand |-> [num_cards |-> h.num_cards - 1,
                                      has_skull |-> h.has_skull]]
        ELSE [err |-> "Ok", hand |-> NoHand]

\* Result<Option<Hand>, HandError>: err, and the hand (NoHand for Ok(None)).
remove_card(h, card) ==
    LET has_card == \/ (card = "Skull" /\ h.has_skull)
                    \/ (card = "Flower" /\ num_flowers(h) > 0)
    IN  IF ~has_card THEN [err |-> "CardNotFound", hand |-> h]
        ELSE IF h.num_cards > 1
        THEN [err |-> "Ok",
              hand |-> [num_cards |-> h.num_cards - 1,
                        has_skull |-> IF card = "Skull" THEN FALSE ELSE h.has_skull]]
        ELSE [err |-> "Ok", hand |-> NoHand]

\* add_card without the limit on Flowers.
add_card_no_flower_limit(h, card) ==
    IF h.num_cards >= HandNumCards THEN [err |-> "TooManyCards", hand |-> h]
    ELSE IF card = "Skull" /\ h.has_skull THEN [err |-> "TooManyCards", hand |-> h]
    ELSE [err |-> "Ok",
          hand |-> [num_cards |-> h.num_cards + 1,
                    has_skull |-> IF card = "Skull" THEN TRUE ELSE h.has_skull]]

add_card(h, card) ==
    IF h.num_cards >= HandNumCards
       \/ (num_flowers(h) >= HandMaxFlowers /\ card = "Flower")
    THEN [err |-> "TooManyCards", hand |-> h]
    ELSE IF card = "Skull" /\ h.has_skull THEN [err |-> "TooManyCards", hand |-> h]
    ELSE [err |-> "Ok",
          hand |-> [num_cards |-> h.num_cards + 1,
                    has_skull |-> IF card = "Skull" THEN TRUE ELSE h.has_skull]]

----------------------------------------------------------------------------
(* Players: src/core/src/types/players.rs *)

Players_new ==
    [player_ids |-> <<>>, players |-> EmptyMap, observers |-> <<>>, next_player_id |-> 1]

player_ids(self) == self.player_ids

\* The IDs of the playing members whose name is `name` (HashMap::values().find).
PlayersNamed(self, name) == {id \in DOMAIN self.players : self.players[id].name = name}

\* The roster add_player builds when no playing member has the name.
add_new_player(self, name) ==
    [self EXCEPT
        !.players = Insert(self.players, self.next_player_id,
                           [player_id |-> self.next_player_id, name |-> name,
                            score |-> "Zero"]),
        !.player_ids = Append(self.player_ids, self.next_player_id),
        !.next_player_id = self.next_player_id + 1]

\* Option<PlayerID> of the player after player_id in the turn order.
next_player(self, player_id) ==
    LET index == Position(self.player_ids, player_id)
    IN  IF index = 0 THEN NoPlayer
        ELSE LET next == self.player_ids[(index % Cardinality(DOMAIN self.players)) + 1]
             IN  IF next \in DOMAIN self.players THEN next ELSE NoPlayer

\* add_player without the lookup by name: every call allocates.
add_player_always_new(self, name, found_id) ==
    IF NameLen(name) > MaxNameLen
    THEN [err |-> "PlayerNameTooLong", players |-> self, id |-> NoPlayer]
    ELSE [err |-> "Ok", players |-> add_new_player(self, name), id |-> self.next_player_id]

\* Result<(Self, PlayerID), PlayerError>; `found` is the member `find` returned
\* (NoPlayer when it returned None).
add_player(self, name, found_id) ==
    IF NameLen(name) > MaxNameLen
    THEN [err |-> "PlayerNameTooLong", players |-> self, id |-> NoPlayer]
    ELSE IF found_id # NoPlayer
    THEN [err |-> "Ok", players |-> self, id |-> found_id]
    ELSE [err |-> "Ok", players |-> add_new_player(self, name), id |-> self.next_player_id]

remove_player(self, player_id) ==
    LET idx == Position(self.player_ids, player_id)
        observer_idx == Position([i \in 1..Len(self.observers) |->
                                    self.observers[i].player_id], player_id)
    IN  IF idx = 0 THEN [err |-> "PlayerDoesntExist", players |-> self]
        ELSE [err |-> "Ok",
              players |-> [self EXCEPT
                  !.player_ids = RemoveAt(self.player_ids, idx),
                  !.players = Remove(self.players, player_id),
                  !.observers = IF observer_idx # 0
                                THEN RemoveAt(self.observers, observer_idx)
                                ELSE self.observers]]

\* Vec::sort_by_key(|pid| pid.0) as an insertion sort.
RECURSIVE SortInsert(_, _)
SortInsert(s, x) ==
    IF s = <<>> THEN <<x>>
    ELSE IF x < Head(s) THEN <<x>> \o s
    ELSE <<Head(s)>> \o SortInsert(Tail(s), x)

RECURSIVE SortByKey(_)
SortByKey(s) == IF s = <<>> THEN <<>> ELSE SortInsert(SortByKey(Tail(s)), Head(s))

\* reorder_players without the permutation check.
reorder_players_unchecked(self, reordered_player_ids) ==
    [err |-> "Ok", players |-> [self EXCEPT !.player_ids = reordered_player_ids]]

reorder_players(self, reordered_player_ids) ==
    IF SortByKey(self.player_ids) # SortByKey(reordered_player_ids)
    THEN [err |-> "MismatchedPlayerIDs", players |-> self]
    ELSE [err |-> "Ok", players |-> [self EXCEPT !.player_ids = reordered_player_ids]]

make_player_into_observer(self, player_id) ==
    IF player_id \notin DOMAIN self.players
    THEN [err |-> "PlayerDoesntExist", players |-> self]
    ELSE [err |-> "Ok",
          players |-> [self EXCEPT
              !.players = Remove(self.players, player_id),
              !.player_ids = Retain(self.player_ids, player_id),
              !.observers = Append(self.observers, self.players[player_id])]]

make_observer_into_player(self, player_id) ==
    LET idx == Position([i \in 1..Len(self.observers) |->
                           self.observers[i].player_id], player_id)
    IN  IF idx = 0 THEN [err |-> "PlayerDoesntExist", players |-> self]
        ELSE [err |-> "Ok",
              players |-> [self EXCEPT
                  !.observers = RemoveAt(self.observers, idx),
                  !.players = Insert(self.players, player_id, self.observers[idx]),
                  !.player_ids = Append(self.player_ids, player_id)]]

\* The number of playing members whose score is WonGame.
num_winners(self) ==
    Cardinality({id \in DOMAIN self.players : self.players[id].score = "WonGame"})

\* Result<(Self, Option<PlayerID>), PlayerError>
increment_score(self, player_id) ==
    IF player_id \notin DOMAIN self.players
    THEN [err |-> "PlayerDoesntExist", players |-> self, winner |-> NoPlayer]
    ELSE LET score == self.players[player_id].score
         IN  IF score = "Zero"
             THEN [err |-> "Ok",
                   players |-> [self EXCEPT !.players[player_id].score = "WonOne"],
                   winner |-> NoPlayer]
             ELSE IF score = "WonOne" /\ num_winners(self) = 0
             THEN [err |-> "Ok",
                   players |-> [self EXCEPT !.players[player_id].score = "WonGame"],
                   winner |-> self.players[player_id].player_id]
             ELSE [err |-> "PlayerAlreadyWon", players |-> self, winner |-> NoPlayer]

reset_all_scores(self) ==
    [self EXCEPT
        !.players = [id \in DOMAIN self.players |->
                        [self.players[id] EXCEPT !.score = "Zero"]],
        !.observers = [i \in 1..Len(self.observers) |->
                        [self.observers[i] EXCEPT !.score = "Zero"]]]

----------------------------------------------------------------------------
(* Placement: src/core/src/game_states/placement.rs *)

\* The sum and the maximum of the stack lengths.
TotalCards(cs) == SumLen(cs, DOMAIN cs)
LongestStack(cs) == SetMax({Len(cs[p]) : p \in DOMAIN cs})

\* place_card pushing the card under the stack instead of on top of it.
place_card_bottom(ps, hs, cs, player_id, card) ==
    LET next == next_player(ps, player_id)
        failed(e) == [err |-> e, hands |-> hs, cards |-> cs, current_player |-> NoPlayer]
    IN  IF next = NoPlayer THEN failed("PlayerDoesntExist")
        ELSE IF player_id \notin DOMAIN hs THEN failed("OutOfCards")
        ELSE LET r == remove_card(hs[player_id], card)
             IN  IF r.err # "Ok" THEN failed(r.err)
                 ELSE [err |-> "Ok",
                       hands |-> IF r.hand = NoHand THEN Remove(hs, player_id)
                                 ELSE Insert(hs, player_id, r.hand),
                       cards |-> Insert(cs, player_id,
                                        <<card>> \o Get(cs, player_id, <<>>)),
                       current_player |-> next]

\* place_card pushing the card without taking it from the hand.
place_card_keeps_hand(ps, hs, cs, player_id, card) ==
    LET next == next_player(ps, player_id)
        failed(e) == [err |-> e, hands |-> hs, cards |-> cs, current_player |-> NoPlayer]
    IN  IF next = NoPlayer THEN failed("PlayerDoesntExist")
        ELSE IF player_id \notin DOMAIN hs THEN failed("OutOfCards")
        ELSE LET r == remove_card(hs[player_id], card)
             IN  IF r.err # "Ok" THEN failed(r.err)
                 ELSE [err |-> "Ok",
                       hands |-> hs,
                       cards |-> Insert(cs, player_id,
                                        Append(Get(cs, player_id, <<>>), card)),
                       current_player |-> next]

\* Result<Placement, PlacementError>
place_card(ps, hs, cs, player_id, card) ==
    LET next == next_player(ps, player_id)
        failed(e) == [err |-> e, hands |-> hs, cards |-> cs, current_player |-> NoPlayer]
    IN  IF next = NoPlayer THEN failed("PlayerDoesntExist")
        ELSE IF player_id \notin DOMAIN hs THEN failed("OutOfCards")
        ELSE LET r == remove_card(hs[player_id], card)
             IN  IF r.err # "Ok" THEN failed(r.err)
                 ELSE [err |-> "Ok",
                       hands |-> IF r.hand = NoHand THEN Remove(hs, player_id)
                                 ELSE Insert(hs, player_id, r.hand),
                       cards |-> Insert(cs, player_id,
                                        Append(Get(cs, player_id, <<>>), card)),
                       current_player |-> next]

----------------------------------------------------------------------------
(* Selection::new: src/core/src/game_states/selection.rs *)

\* Result<Self, ()>: whether the constructor accepts the goal for these stacks.
Selection_new_ok(goal_, cs) == ~(Cardinality(DOMAIN cs) > goal_)

----------------------------------------------------------------------------
(* Bidding: src/core/src/game_states/bidding.rs *)

\* Result<Bidding, BiddingError> of Bidding::new (and so of Placement::bid).
Bidding_new(ps, cs, player_id, amount) ==
    LET failed(e) == [err |-> e, bids |-> EmptyMap, current_player |-> NoPlayer]
        next == next_player(ps, player_id)
    IN  IF amount > LongestStack(cs) THEN failed("BidTooHigh")
        ELSE IF amount = 0 THEN failed("BidTooLow")
        ELSE IF next = NoPlayer THEN failed("PlayerDoesntExist")
        ELSE IF Len(player_ids(ps)) < 2 THEN failed("InsufficientPlayers")
        ELSE [err |-> "Ok",
              bids |-> Insert(EmptyMap, player_id, Amount(amount)),
              current_player |-> next]

\* Placement::bid delegates to Bidding::new.
bid(ps, cs, player_id, amount) == Bidding_new(ps, cs, player_id, amount)

AmountHolders(bs) == {p \in DOMAIN bs : bs[p].kind = "Amount"}
num_passes(bs) == Cardinality({p \in DOMAIN bs : bs[p].kind = "Pass"})

\* min_bid and max_bid of make_bid.
min_bid(bs) == SetMax({bs[p].n : p \in AmountHolders(bs)})
max_bid(cs) == TotalCards(cs)

\* bid_check with the AlreadyPassed arm matching (Some(Pass), Pass) alone.
bid_check_rebid(bs, cs, player_id, b) ==
    LET existing_bid == Get(bs, player_id, NoBid)
    IN  IF existing_bid = Pass /\ b = Pass THEN "AlreadyPassed"
        ELSE IF b.kind = "Amount" /\ (b.n <= min_bid(bs) \/ b.n > max_bid(cs))
        THEN "BidTooLow"
        ELSE "Ok"

\* bid_check without the comparison against max_bid.
bid_check_no_max(bs, cs, player_id, b) ==
    LET existing_bid == Get(bs, player_id, NoBid)
    IN  IF existing_bid = Pass THEN "AlreadyPassed"
        ELSE IF b.kind = "Amount" /\ b.n <= min_bid(bs) THEN "BidTooLow"
        ELSE "Ok"

\* The match on (existing_bid, bid): Ok or the BiddingError.
bid_check(bs, cs, player_id, b) ==
    LET existing_bid == Get(bs, player_id, NoBid)
    IN  IF existing_bid = Pass THEN "AlreadyPassed"
        ELSE IF b.kind = "Amount" /\ (b.n <= min_bid(bs) \/ b.n > max_bid(cs))
        THEN "BidTooLow"
        ELSE "Ok"

\* scan_next without the skip: the acting player's successor, passed or not.
scan_next_no_skip(ps, new_bids, offset, i, player_id) ==
    player_ids(ps)[((offset + 1) % Len(player_ids(ps))) + 1]

\* The next player who has never passed: scans the turn order from `offset`.
RECURSIVE scan_next(_, _, _, _, _)
scan_next(ps, new_bids, offset, i, player_id) ==
    LET num_players == Len(player_ids(ps))
    IN  IF i >= num_players THEN player_id
        ELSE LET p == player_ids(ps)[((i + offset) % num_players) + 1]
             IN  IF Get(new_bids, p, NoBid) # Pass THEN p
                 ELSE scan_next(ps, new_bids, offset, i + 1, player_id)

\* Result<Selection, BiddingError>; `first` is the entry the iterator over the
\* Amount bids yields first (NoPlayer when there is none).
finish_bidding(ps, cs, bs, first) ==
    IF first = NoPlayer THEN [err |-> "BiddingIncomplete", selector |-> NoPlayer, goal |-> 0]
    ELSE IF (AmountHolders(bs) \ {first}) # {}
            /\ num_passes(bs) = Len(player_ids(ps)) - 1
    THEN IF Selection_new_ok(bs[first].n, cs)
         THEN [err |-> "Ok", selector |-> first, goal |-> bs[first].n]
         ELSE [err |-> "BidTooHigh", selector |-> NoPlayer, goal |-> 0]
    ELSE [err |-> "BiddingIncomplete", selector |-> NoPlayer, goal |-> 0]

\* The entries HashMap iteration may yield first among the Amount bids.
FirstAmounts(bs) == IF AmountHolders(bs) = {} THEN {NoPlayer} ELSE AmountHolders(bs)

\* Result<BiddingResult, BiddingError>
make_bid(ps, cs, bs, player_id, b, first) ==
    LET offset == Position(player_ids(ps), player_id)
        failed(e) == [err |-> e, res |-> "None", bids |-> bs,
                      current_player |-> NoPlayer, selector |-> NoPlayer, goal |-> 0]
    IN  IF offset = 0 THEN failed("PlayerDoesntExist")
        ELSE IF bid_check(bs, cs, player_id, b) # "Ok"
        THEN failed(bid_check(bs, cs, player_id, b))
        ELSE LET new_bids == Insert(bs, player_id, b)
                 next == scan_next(ps, new_bids, offset - 1, 0, player_id)
                 fin == finish_bidding(ps, cs, new_bids, first)
             IN  IF fin.err = "Ok"
                 THEN [err |-> "Ok", res |-> "StartSelection", bids |-> new_bids,
                       current_player |-> next,
                       selector |-> fin.selector, goal |-> fin.goal]
                 ELSE [err |-> "Ok", res |-> "KeepBidding", bids |-> new_bids,
                       current_player |-> next, selector |-> NoPlayer, goal |-> 0]

----------------------------------------------------------------------------
(* Selection: src/core/src/game_states/selection.rs *)

\* draw_card taking the first card placed instead of the last.
draw_card_bottom(cs, player_id) ==
    IF player_id \notin DOMAIN cs
    THEN [err |-> "PlayerDoesntExist", card |-> "None", cards |-> cs]
    ELSE IF cs[player_id] = <<>>
    THEN [err |-> "PlayerDoesntExist", card |-> "None", cards |-> cs]
    ELSE [err |-> "Ok",
          card |-> cs[player_id][1],
          cards |-> [cs EXCEPT ![player_id] = Tail(@)]]

\* Result<(Card, HashMap<PlayerID, Vec<Card>>), DrawError>
draw_card(cs, player_id) ==
    IF player_id \notin DOMAIN cs
    THEN [err |-> "PlayerDoesntExist", card |-> "None", cards |-> cs]
    ELSE IF cs[player_id] = <<>>
    THEN [err |-> "PlayerDoesntExist", card |-> "None", cards |-> cs]
    ELSE [err |-> "Ok",
          card |-> cs[player_id][Len(cs[player_id])],
          cards |-> [cs EXCEPT ![player_id] = SubSeq(@, 1, Len(@) - 1)]]

\* incorrect_draw_order with the comparison of selector and from_player inverted.
incorrect_draw_order_eq(cs, selector_, from_player) ==
    /\ selector_ = from_player
    /\ ~(IF selector_ \in DOMAIN cs THEN cs[selector_] = <<>> ELSE FALSE)

\* The guard of pick_card: the draw is out of order.
incorrect_draw_order(cs, selector_, from_player) ==
    /\ selector_ # from_player
    /\ ~(IF selector_ \in DOMAIN cs THEN cs[selector_] = <<>> ELSE FALSE)

\* Result<SelectionResult, SelectionError>
pick_card(cs, selector_, goal_, found_, from_player) ==
    LET failed(e) == [err |-> e, res |-> "None", who |-> NoPlayer,
                      cards |-> cs, found |-> found_]
        d == draw_card(cs, from_player)
    IN  IF incorrect_draw_order(cs, selector_, from_player)
        THEN failed("IncorrectDrawOrder")
        ELSE IF d.err # "Ok" THEN failed(d.err)
        ELSE IF d.card = "Skull"
        THEN [err |-> "Ok", res |-> "Failed", who |-> from_player,
              cards |-> cs, found |-> found_]
        ELSE IF found_ + 1 = goal_
        THEN [err |-> "Ok", res |-> "Complete", who |-> selector_,
              cards |-> cs, found |-> found_]
        ELSE [err |-> "Ok", res |-> "More", who |-> NoPlayer,
              cards |-> d.cards, found |-> found_ + 1]

----------------------------------------------------------------------------
(* The calls the model makes, and what it records of each *)

NoCard == "None"
NoName == "None"
Accepted(op, player, card, b, name) ==
    [op |-> op, player |-> player, card |-> card, bid |-> b, name |-> name, err |-> "Ok"]
Rejected(op, err) ==
    [op |-> op, player |-> NoPlayer, card |-> NoCard, bid |-> NoBid, name |-> NoName,
     err |-> err]

RECURSIVE RosterOf(_)
RosterOf(n) == IF n = 0 THEN Players_new
               ELSE add_player(RosterOf(n - 1), PlayerNames[n], NoPlayer).players

\* The hands a member may hold when a round starts: a full hand, or a single
\* card left after lost rounds.
StartHands == {Hand_new, from_single_card("Flower")}

Bids == {Pass} \cup {Amount(n) : n \in 0..MaxAmount}

\* A Placement at the start of a round: every member holds a hand, no card is
\* committed, and the first member of the turn order is to play.
Init ==
    /\ phase = "Placement"
    /\ \E n \in 1..Len(PlayerNames) : players = RosterOf(n)
    /\ hands \in [DOMAIN players.players -> StartHands]
    /\ cards = EmptyMap
    /\ current_player = players.player_ids[1]
    /\ bids = EmptyMap
    /\ selector = NoPlayer
    /\ goal = 0
    /\ found = 0
    /\ highest = 0
    /\ result = Accepted("new", NoPlayer, NoCard, NoBid, NoName)

PlaceCard(player_id, card) ==
    /\ phase = "Placement"
    /\ TotalCards(cards) < MaxStacked
    /\ LET r == place_card(players, hands, cards, player_id, card)
       IN  IF r.err = "Ok"
           THEN /\ result' = Accepted("place_card", player_id, card, NoBid, NoName)
                /\ hands' = r.hands
                /\ cards' = r.cards
                /\ current_player' = r.current_player
           ELSE /\ result' = Rejected("place_card", r.err)
                /\ UNCHANGED <<hands, cards, current_player>>
    /\ UNCHANGED <<phase, players, bids, selector, goal, found, highest>>

PlacementBid(player_id, amount) ==
    /\ phase = "Placement"
    /\ LET r == bid(players, cards, player_id, amount)
       IN  IF r.err = "Ok"
           THEN /\ result' = Accepted("bid", player_id, NoCard, Amount(amount), NoName)
                /\ phase' = "Bidding"
                /\ bids' = r.bids
                /\ current_player' = r.current_player
                /\ highest' = amount
           ELSE /\ result' = Rejected("bid", r.err)
                /\ UNCHANGED <<phase, bids, current_player, highest>>
    /\ UNCHANGED <<players, hands, cards, selector, goal, found>>

MakeBid(player_id, b) ==
    /\ phase = "Bidding"
    /\ \E first \in FirstAmounts(Insert(bids, player_id, b)) :
         LET r == make_bid(players, cards, bids, player_id, b, first)
         IN  IF r.err # "Ok"
             THEN /\ result' = Rejected("make_bid", r.err)
                  /\ UNCHANGED <<phase, bids, current_player, selector, goal, highest>>
             ELSE /\ result' = Accepted("make_bid", player_id, NoCard, b, NoName)
                  /\ highest' = IF b.kind = "Amount" /\ b.n > highest THEN b.n ELSE highest
                  /\ IF r.res = "StartSelection"
                     THEN /\ phase' = "Selection"
                          /\ selector' = r.selector
                          /\ goal' = r.goal
                          /\ bids' = r.bids
                          /\ current_player' = r.current_player
                     ELSE /\ bids' = r.bids
                          /\ current_player' = r.current_player
                          /\ UNCHANGED <<phase, selector, goal>>
    /\ UNCHANGED <<players, hands, cards, found>>

\* The public constructor, called with the roster, stacks and hands of a
\* Placement snapshot.
SelectionNew(selector_, goal_) ==
    /\ phase = "Placement"
    /\ IF Selection_new_ok(goal_, cards)
       THEN /\ result' = Accepted("Selection::new", selector_, NoCard, Amount(goal_), NoName)
            /\ phase' = "Selection"
            /\ selector' = selector_
            /\ goal' = goal_
            /\ current_player' = NoPlayer
       ELSE /\ result' = Rejected("Selection::new", "Err")
            /\ UNCHANGED <<phase, selector, goal, current_player>>
    /\ UNCHANGED <<players, hands, cards, bids, found, highest>>

PickCard(from_player) ==
    /\ phase = "Selection"
    /\ LET r == pick_card(cards, selector, goal, found, from_player)
       IN  IF r.err # "Ok"
           THEN /\ result' = Rejected("pick_card", r.err)
                /\ UNCHANGED <<phase, cards, found>>
           ELSE /\ result' = Accepted("pick_card", from_player, NoCard, NoBid, NoName)
                /\ phase' = IF r.res = "More" THEN phase ELSE r.res
                /\ cards' = r.cards
                /\ found' = r.found
    /\ UNCHANGED <<players, hands, bids, current_player, selector, goal, highest>>

Next ==
    \/ \E p \in PlayerIDs, c \in Card : PlaceCard(p, c)
    \/ \E p \in PlayerIDs, a \in 0..MaxAmount : PlacementBid(p, a)
    \/ \E p \in PlayerIDs, b \in Bids : MakeBid(p, b)
    \/ \E p \in PlayerIDs, g \in 0..MaxAmount : SelectionNew(p, g)
    \/ \E p \in PlayerIDs : PickCard(p)

Spec == Init /\ [][Next]_vars

----------------------------------------------------------------------------
(* The roster operations, from an empty roster *)

\* The names offered to add_player.
RosterNames == {PlayerNames[1], PlayerNames[2], LongName}
\* The orders offered to reorder_players.
Reorderings == UNION {[1..k -> 1..MaxIDs] : k \in 0..MaxIDs}

InitRoster ==
    /\ phase = "Initialize"
    /\ players = Players_new
    /\ hands = EmptyMap
    /\ cards = EmptyMap
    /\ current_player = NoPlayer
    /\ bids = EmptyMap
    /\ selector = NoPlayer
    /\ goal = 0
    /\ found = 0
    /\ highest = 0
    /\ result = Accepted("new", NoPlayer, NoCard, NoBid, NoName)

game_vars == <<phase, hands, cards, bids, current_player, selector, goal, found, highest>>

game_vars_no_hands == <<phase, cards, bids, current_player, selector, goal, found, highest>>

\* Applies the outcome r of a roster operation.
RosterCall(op, player_id, name, r) ==
    /\ players' = r.players
    /\ result' = IF r.err = "Ok" THEN Accepted(op, player_id, NoCard, NoBid, name)
                 ELSE Rejected(op, r.err)
    /\ UNCHANGED game_vars

AddPlayer(name) ==
    /\ players.next_player_id <= MaxIDs
    /\ \E found_id \in (IF PlayersNamed(players, name) = {} THEN {NoPlayer}
                        ELSE PlayersNamed(players, name)) :
         LET r == add_player(players, name, found_id)
         IN  RosterCall("add_player", r.id, name, r)

RemovePlayer(player_id) ==
    RosterCall("remove_player", player_id, NoName, remove_player(players, player_id))

ReorderPlayers(reordered_player_ids) ==
    RosterCall("reorder_players", NoPlayer, NoName,
               reorder_players(players, reordered_player_ids))

MakePlayerIntoObserver(player_id) ==
    RosterCall("make_player_into_observer", player_id, NoName,
               make_player_into_observer(players, player_id))

MakeObserverIntoPlayer(player_id) ==
    RosterCall("make_observer_into_player", player_id, NoName,
               make_observer_into_player(players, player_id))

IncrementScore(player_id) ==
    RosterCall("increment_score", player_id, NoName, increment_score(players, player_id))

ResetAllScores ==
    RosterCall("reset_all_scores", NoPlayer, NoName,
               [err |-> "Ok", players |-> reset_all_scores(players)])

NextRoster ==
    \/ \E name \in RosterNames : AddPlayer(name)
    \/ \E p \in 1..MaxIDs : RemovePlayer(p)
    \/ \E order \in Reorderings : ReorderPlayers(order)
    \/ \E p \in 1..MaxIDs : MakePlayerIntoObserver(p)
    \/ \E p \in 1..MaxIDs : MakeObserverIntoPlayer(p)
    \/ \E p \in 1..MaxIDs : IncrementScore(p)
    \/ ResetAllScores

SpecRoster == InitRoster /\ [][NextRoster]_vars

----------------------------------------------------------------------------
(* The Hand operations; hands[p] is the Option<Hand> an owner p holds *)

InitHand ==
    /\ phase = "Hand"
    /\ players = Players_new
    /\ hands = EmptyMap
    /\ cards = EmptyMap
    /\ current_player = NoPlayer
    /\ bids = EmptyMap
    /\ selector = NoPlayer
    /\ goal = 0
    /\ found = 0
    /\ highest = 0
    /\ result = Accepted("new", NoPlayer, NoCard, NoBid, NoName)

HandNew(p) ==
    /\ hands' = Insert(hands, p, Hand_new)
    /\ result' = Accepted("Hand::new", p, NoCard, NoBid, NoName)
    /\ UNCHANGED <<players, game_vars_no_hands>>

HandFromSingleCard(p, card) ==
    /\ hands' = Insert(hands, p, from_single_card(card))
    /\ result' = Accepted("from_single_card", p, card, NoBid, NoName)
    /\ UNCHANGED <<players, game_vars_no_hands>>

HandAddCard(p, card) ==
    /\ p \in DOMAIN hands
    /\ LET r == add_card(hands[p], card)
       IN  IF r.err = "Ok"
           THEN /\ hands' = Insert(hands, p, r.hand)
                /\ result' = Accepted("add_card", p, card, NoBid, NoName)
           ELSE /\ hands' = hands
                /\ result' = Rejected("add_card", r.err)
    /\ UNCHANGED <<players, game_vars_no_hands>>

HandRemoveCard(p, card) ==
    /\ p \in DOMAIN hands
    /\ LET r == remove_card(hands[p], card)
       IN  IF r.err = "Ok"
           THEN /\ hands' = IF r.hand = NoHand THEN Remove(hands, p)
                            ELSE Insert(hands, p, r.hand)
                /\ result' = Accepted("remove_card", p, card, NoBid, NoName)
           ELSE /\ hands' = hands
                /\ result' = Rejected("remove_card", r.err)
    /\ UNCHANGED <<players, game_vars_no_hands>>

NextHand ==
    \/ \E p \in PlayerIDs : HandNew(p)
    \/ \E p \in PlayerIDs, card \in Card : HandFromSingleCard(p, card)
    \/ \E p \in PlayerIDs, card \in Card : HandAddCard(p, card)
    \/ \E p \in PlayerIDs, card \in Card : HandRemoveCard(p, card)

SpecHand == InitHand /\ [][NextHand]_vars

----------------------------------------------------------------------------
(* Properties *)

\* The playing members: the IDs in the turn order.
Playing == {players.player_ids[i] : i \in 1..Len(players.player_ids)}
BidOf(p) == Get(bids, p, NoBid)
StackOf(p) == Get(cards, p, <<>>)
AcceptedCall(op) == result.op = op /\ result.err = "Ok"

\* Exactly one playing member holds Amount and every other playing member Pass.
SoleBidder(p) ==
    /\ p \in Playing
    /\ BidOf(p).kind = "Amount"
    /\ \A q \in Playing \ {p} : BidOf(q) = Pass
Resolved == \E p \in Playing : SoleBidder(p)

\* What make_bid returns for player p offering b in the current Bidding.
MakeBidErrs(p, b) ==
    {make_bid(players, cards, bids, p, b, first).err :
        first \in FirstAmounts(Insert(bids, p, b))}

\* C1: an accepted make_bid that leaves exactly one playing member with
\* Amount(g) and every other playing member with Pass returns StartSelection
\* with that member as selector, goal g and found 0, and it returns
\* KeepBidding only when that condition does not hold.
C1_BiddingResolution ==
    AcceptedCall("make_bid") =>
        /\ Resolved <=> phase = "Selection"
        /\ phase = "Selection" =>
             \E p \in Playing :
                SoleBidder(p) /\ selector = p /\ goal = BidOf(p).n /\ found = 0

\* C2: within one Bidding, every accepted Amount(n) is strictly greater than
\* every Amount accepted earlier (the seed bid included).
C2_BidMonotonicity ==
    [][(/\ phase = "Bidding"
        /\ result'.op = "make_bid" /\ result'.err = "Ok"
        /\ result'.bid.kind = "Amount")
       => result'.bid.n > highest]_vars

\* C3: after an accepted make_bid the Bidding's current_player has not passed,
\* unless every playing member other than the acting player has passed.
C3_TurnSkipping ==
    (phase = "Bidding" /\ AcceptedCall("make_bid")) =>
        (BidOf(current_player) = Pass =>
            \A q \in Playing \ {result.player} : BidOf(q) = Pass)

\* C3 witness: a player passed, the successor had passed before, and the turn
\* went past that successor to a player who has not passed.
C3_Witness ==
    /\ phase = "Bidding" /\ AcceptedCall("make_bid") /\ result.bid = Pass
    /\ LET succ == next_player(players, result.player)
       IN  /\ succ # result.player
           /\ BidOf(succ) = Pass
           /\ current_player \notin {succ, result.player}
           /\ BidOf(current_player) # Pass

\* C4: while the selector's own stack is non-empty, pick_card from any other
\* player fails with IncorrectDrawOrder; and an accepted draw from another
\* player finds the selector's stack emptied.
C4_DrawOrder ==
    /\ phase = "Selection" =>
         \A from_player \in PlayerIDs \ {selector} :
            StackOf(selector) # <<>> =>
               pick_card(cards, selector, goal, found, from_player).err
                  = "IncorrectDrawOrder"
    /\ (AcceptedCall("pick_card") /\ result.player # selector) =>
          StackOf(selector) = <<>>

\* C4 witness: a draw from another player was rejected as out of order while
\* the selector still had a card.
C4_Witness ==
    /\ phase = "Selection"
    /\ result = Rejected("pick_card", "IncorrectDrawOrder")
    /\ StackOf(selector) # <<>>
    /\ \E p \in DOMAIN cards \ {selector} : cards[p] # <<>>

\* Every make_bid by a player whose recorded bid is Pass fails with AlreadyPassed.
PassRejected ==
    phase = "Bidding" =>
        \A p \in PlayerIDs : BidOf(p) = Pass =>
            \A b \in Bids : MakeBidErrs(p, b) = {"AlreadyPassed"}

\* A recorded Pass is still recorded after the step.
PassKept ==
    \A p \in PlayerIDs :
        (phase = "Bidding" /\ BidOf(p) = Pass) => Get(bids', p, NoBid) = Pass

\* C6: once a player's recorded bid is Pass, every make_bid by that player
\* fails with AlreadyPassed and the recorded bid stays Pass.
C6_PassFrozen == []PassRejected /\ [][PassKept]_vars

\* C6 witness: a player who had passed bid again and was rejected.
C6_Witness ==
    /\ phase = "Bidding"
    /\ result = Rejected("make_bid", "AlreadyPassed")
    /\ \E p \in Playing : BidOf(p) = Pass

\* C7: for a playing member who has not passed, Amount(n) fails with
\* BidTooLow when n <= minBid and with BidTooHigh when minBid < n and
\* n > maxBid.
C7_BidErrorKinds ==
    phase = "Bidding" =>
        \A p \in Playing : BidOf(p) # Pass =>
            \A n \in 0..MaxAmount :
                /\ n <= min_bid(bids) => MakeBidErrs(p, Amount(n)) = {"BidTooLow"}
                /\ (n > max_bid(cards) /\ min_bid(bids) < n) =>
                      MakeBidErrs(p, Amount(n)) = {"BidTooHigh"}

\* C8: with at least 2 playing members and a playing bidder, Placement.bid
\* succeeds for 1 <= amount <= total committed cards, fails with BidTooLow
\* for amount 0 and with BidTooHigh for an amount above the total.
C8_OpeningBidBounds ==
    (phase = "Placement" /\ Len(players.player_ids) >= 2) =>
        \A p \in Playing : \A amount \in 0..MaxAmount :
            LET err == bid(players, cards, p, amount).err
            IN  /\ (1 <= amount /\ amount <= TotalCards(cards)) => err = "Ok"
                /\ amount = 0 => err = "BidTooLow"
                /\ amount > TotalCards(cards) => err = "BidTooHigh"

\* C9: in a Bidding where exactly one player holds Amount(g) and all other
\* playing members hold Pass, Selection::new accepts (selector, g, stacks).
C9_SelectionConstructible ==
    phase = "Bidding" =>
        \A p \in Playing : SoleBidder(p) => Selection_new_ok(BidOf(p).n, cards)

\* The first player, scanning the turn order cyclically from p's successor,
\* whose recorded bid is not Pass.
NextNotPassed(p) ==
    LET ids == players.player_ids
        n == Len(ids)
        at(k) == ids[((Position(ids, p) - 1 + k) % n) + 1]
        k0 == CHOOSE k \in 1..n :
                 /\ BidOf(at(k)) # Pass
                 /\ \A j \in 1..(k - 1) : BidOf(at(j)) = Pass
    IN  at(k0)

\* C10: after an accepted make_bid by p the current_player is the first
\* player after p, cyclically, who has not passed.
C10_TurnAdvance ==
    (phase = "Bidding" /\ AcceptedCall("make_bid")
        /\ \E q \in Playing : BidOf(q) # Pass) =>
        current_player = NextNotPassed(result.player)

\* The members, playing or observing, who hold the WonGame score.
NumWonGame ==
    Cardinality({id \in DOMAIN players.players : players.players[id].score = "WonGame"})
    + Cardinality({i \in 1..Len(players.observers) : players.observers[i].score = "WonGame"})

\* C5: after any sequence of roster operations at most one member, playing
\* or observing, holds the WonGame score.
C5_WonGameExclusive == NumWonGame <= 1

\* The top (most recently placed) card of a stack, and the stack without it.
Top(stack) == stack[Len(stack)]
Pop(stack) == SubSeq(stack, 1, Len(stack) - 1)

\* What an accepted pick_card returns, by the top card of from_player's stack.
PickOutcome ==
    phase = "Selection" =>
        \A from_player \in PlayerIDs :
            LET r == pick_card(cards, selector, goal, found, from_player)
                top == Top(cards[from_player])
            IN  r.err = "Ok" =>
                  /\ top = "Skull" => (r.res = "Failed" /\ r.who = from_player)
                  /\ (top = "Flower" /\ found + 1 = goal) =>
                        (r.res = "Complete" /\ r.who = selector)
                  /\ (top = "Flower" /\ found + 1 < goal) =>
                        /\ r.res = "More"
                        /\ r.found = found + 1
                        /\ r.cards = [cards EXCEPT ![from_player] = Pop(@)]

\* The step of an accepted pick_card: the result by the top card, and for
\* More the new Selection.
PickStep ==
    (phase = "Selection" /\ result'.op = "pick_card" /\ result'.err = "Ok") =>
        LET from_player == result'.player
            top == Top(cards[from_player])
        IN  /\ top = "Skull" => phase' = "Failed"
            /\ (top = "Flower" /\ found + 1 = goal) => phase' = "Complete"
            /\ (top = "Flower" /\ found + 1 < goal) =>
                  /\ phase' = "Selection"
                  /\ found' = found + 1
                  /\ cards' = [cards EXCEPT ![from_player] = Pop(@)]
                  /\ selector' = selector /\ goal' = goal
                  /\ hands' = hands /\ players' = players

\* C11: an accepted pick_card(from_player) removes the top card of
\* from_player's stack; a Skull gives Failed(from_player), a Flower with
\* found + 1 = goal gives Complete(selector), and a Flower with
\* found + 1 < goal gives More with found + 1, that stack without its top
\* card, and selector, goal and the other stacks unchanged.
C11_PickOutcome == []PickOutcome /\ [][PickStep]_vars

\* C11 witness: a Flower was drawn from a stack of two cards and more are
\* needed.
C11_Witness ==
    /\ phase = "Selection" /\ AcceptedCall("pick_card")
    /\ found = 1 /\ found < goal
    /\ Len(StackOf(result.player)) = 1

\* C12: pick_card from a player other than the selector fails with
\* IncorrectDrawOrder only while the selector's own stack is non-empty; when
\* the selector has no card in their stack (emptied, or no stack entry) a
\* draw from another player whose stack is non-empty is accepted.
C12_DrawFromOthers ==
    phase = "Selection" =>
        \A from_player \in PlayerIDs \ {selector} :
            LET err == pick_card(cards, selector, goal, found, from_player).err
            IN  /\ err = "IncorrectDrawOrder" => StackOf(selector) # <<>>
                /\ (StackOf(selector) = <<>> /\ StackOf(from_player) # <<>>) =>
                      err = "Ok"

\* C13: pick_card on a player with no stack entry fails with
\* PlayerDoesntExist, and on a player whose stack entry exists but is empty
\* it fails with NoCardsLeft.
C13_ExhaustedVersusMissing ==
    phase = "Selection" =>
        \A p \in PlayerIDs :
            ~incorrect_draw_order(cards, selector, p) =>
                LET err == pick_card(cards, selector, goal, found, p).err
                IN  /\ p \notin DOMAIN cards => err = "PlayerDoesntExist"
                    /\ (p \in DOMAIN cards /\ cards[p] = <<>>) => err = "NoCardsLeft"

\* C14: place_card(player_id, card) is accepted only when player_id is the
\* Placement's current_player; a call naming any other playing member is
\* rejected and commits no card.
C14_PlacementTurnOrder ==
    phase = "Placement" =>
        \A p \in Playing \ {current_player} : \A c \in Card :
            LET r == place_card(players, hands, cards, p, c)
            IN  r.err # "Ok" /\ r.cards = cards

\* C15: make_bid(player_id, bid) is accepted only when player_id is the
\* Bidding's current_player; a bid or pass offered by a playing member whose
\* turn it is not is rejected.
C15_BiddingTurnOrder ==
    phase = "Bidding" =>
        \A p \in Playing \ {current_player} : \A b \in Bids :
            "Ok" \notin MakeBidErrs(p, b)

\* The observing members, and the members of either kind holding a name.
Observing == {players.observers[i].player_id : i \in 1..Len(players.observers)}
ObserversNamed(name) ==
    {players.observers[i].player_id :
        i \in {j \in 1..Len(players.observers) : players.observers[j].name = name}}
MembersNamed(name) == PlayersNamed(players, name) \cup ObserversNamed(name)
\* What `find` may return for a name: any playing member holding it, else None.
FoundIDs(name) ==
    IF PlayersNamed(players, name) = {} THEN {NoPlayer} ELSE PlayersNamed(players, name)
ShortNames == {name \in RosterNames : NameLen(name) <= MaxNameLen}

\* C16 as stated: a name held by any member, playing or observing, makes
\* add_player return that member's ID and the roster unchanged, and no two
\* members share a name.
C16_IdempotentOnAllMembers ==
    /\ \A name \in ShortNames :
         MembersNamed(name) # {} =>
            \A found_id \in FoundIDs(name) :
                LET r == add_player(players, name, found_id)
                IN  r.err = "Ok" /\ r.id \in MembersNamed(name) /\ r.players = players
    /\ \A name \in ShortNames : Cardinality(MembersNamed(name)) <= 1

\* C16: add_player is idempotent on the names of playing members: if a playing
\* member has exactly the given name, add_player returns the ID of a playing
\* member with that name and a roster equal to the input; if no playing member
\* has it (an observer may), it allocates next_player_id, appends it to the
\* turn order and inserts a Player with that name and score Zero.
C16_IdempotentOnPlaying ==
    \A name \in ShortNames : \A found_id \in FoundIDs(name) :
        LET r == add_player(players, name, found_id)
        IN  /\ r.err = "Ok"
            /\ PlayersNamed(players, name) # {} =>
                 /\ r.id \in PlayersNamed(players, name)
                 /\ r.players = players
            /\ PlayersNamed(players, name) = {} =>
                 /\ r.id = players.next_player_id
                 /\ r.id \notin Playing \cup Observing
                 /\ r.players.player_ids = Append(players.player_ids, r.id)
                 /\ r.players.players =
                      Insert(players.players, r.id,
                             [player_id |-> r.id, name |-> name, score |-> "Zero"])
                 /\ r.players.observers = players.observers
                 /\ r.players.next_player_id = players.next_player_id + 1
\* add_player has just returned the ID of a member who already scored.
C16_Witness ==
    /\ AcceptedCall("add_player")
    /\ result.player \in Playing
    /\ players.players[result.player].name = result.name
    /\ players.players[result.player].score = "WonOne"

\* C17: remove_player(id) succeeds whenever id is in the turn order or in the
\* observer list, leaving id in neither, and fails with PlayerDoesntExist
\* exactly when id is in neither.
C17_RemoveAnyMember ==
    \A id \in 1..MaxIDs :
        LET r == remove_player(players, id)
            after == r.players
        IN  IF id \in Playing \cup Observing
            THEN /\ r.err = "Ok"
                 /\ Position(after.player_ids, id) = 0
                 /\ \A i \in 1..Len(after.observers) : after.observers[i].player_id # id
            ELSE r.err = "PlayerDoesntExist"

\* C18: in every roster reached from the empty one the IDs of the turn order
\* are the keys of the players map, the turn order has no duplicate, no ID is
\* both playing and observing, and every ID present is below next_player_id.
C18_RosterWellFormed ==
    /\ Playing = DOMAIN players.players
    /\ \A i, j \in 1..Len(players.player_ids) :
         players.player_ids[i] = players.player_ids[j] => i = j
    /\ Playing \cap Observing = {}
    /\ \A id \in Playing \cup Observing : id < players.next_player_id
    /\ \A id \in DOMAIN players.players : players.players[id].player_id = id
\* The turn order has just been reversed by an accepted reorder_players.
C18_Witness ==
    /\ AcceptedCall("reorder_players")
    /\ Len(players.player_ids) = 2
    /\ players.player_ids[1] > players.player_ids[2]

\* The bounds of a Hand value.
HandBounded(h) ==
    /\ h.num_cards \in 1..HandNumCards
    /\ num_skulls(h) <= 1
    /\ num_flowers(h) \in 0..HandMaxFlowers
HasCard(h, card) == IF card = "Skull" THEN num_skulls(h) > 0 ELSE num_flowers(h) > 0

\* C19: every Hand reached from Hand::new or from_single_card through
\* successful add_card and remove_card calls has 1 to 4 cards, at most one
\* Skull and at most 3 Flowers; removing the last card returns no Hand;
\* add_card fails with TooManyCards when the card would break a bound and
\* remove_card fails with CardNotFound when the kind is not in the hand.
C19_HandInvariants ==
    \A p \in DOMAIN hands : \A card \in Card :
        LET h == hands[p]
            a == add_card(h, card)
            r == remove_card(h, card)
            grown == [num_cards |-> h.num_cards + 1,
                      has_skull |-> h.has_skull \/ card = "Skull"]
            breaks == \/ h.num_cards + 1 > HandNumCards
                      \/ (card = "Skull" /\ num_skulls(h) + 1 > 1)
                      \/ (card = "Flower" /\ num_flowers(h) + 1 > HandMaxFlowers)
        IN  /\ HandBounded(h)
            /\ a.err = IF breaks THEN "TooManyCards" ELSE "Ok"
            /\ a.err = "Ok" => a.hand = grown /\ HandBounded(a.hand)
            /\ r.err = IF HasCard(h, card) THEN "Ok" ELSE "CardNotFound"
            /\ r.err = "Ok" => (r.hand = NoHand <=> h.num_cards = 1)
            /\ (r.err = "Ok" /\ r.hand # NoHand) => HandBounded(r.hand)
\* A hand of three Flowers has just accepted the Skull and is full.
C19_Witness ==
    /\ AcceptedCall("add_card")
    /\ result.card = "Skull"
    /\ result.player \in DOMAIN hands
    /\ hands[result.player] = Hand_new

\* C20: for every reachable Hand h and kind k, if h.remove_card(k) succeeds
\* with a non-empty hand h', then h'.add_card(k) succeeds and returns h.
C20_HandRoundTrip ==
    \A p \in DOMAIN hands : \A k \in Card :
        LET r == remove_card(hands[p], k)
        IN  (r.err = "Ok" /\ r.hand # NoHand) =>
                add_card(r.hand, k) = [err |-> "Ok", hand |-> hands[p]]
\* A Skull has just been removed from a hand that keeps other cards, and
\* add_card of the Skull is accepted by what is left.
C20_Witness ==
    /\ AcceptedCall("remove_card")
    /\ result.card = "Skull"
    /\ result.player \in DOMAIN hands
    /\ add_card(hands[result.player], result.card).err = "Ok"

\* C21: in every Bidding reached from a Placement through Placement.bid and
\* make_bid calls, every recorded Amount (the seed bid included) is at least 1
\* and at most the total number of cards committed across all stacks.
C21_BidUpperBound ==
    phase = "Bidding" =>
        \A p \in DOMAIN bids :
            bids[p].kind = "Amount" =>
                /\ 1 <= bids[p].n
                /\ bids[p].n <= TotalCards(cards)
\* A second Amount, equal to the number of committed cards, has been accepted.
C21_Witness ==
    /\ phase = "Bidding"
    /\ AcceptedCall("make_bid")
    /\ result.bid.kind = "Amount"
    /\ result.bid.n = TotalCards(cards)
    /\ Cardinality(AmountHolders(bids)) = 2

\* The number of cards of a kind in a hand entry (0 when there is no entry)
\* and in a stack.
HeldOf(hs, p, kind) ==
    IF p \notin DOMAIN hs THEN 0
    ELSE IF kind = "Skull" THEN num_skulls(hs[p]) ELSE num_flowers(hs[p])
StackedOf(cs, p, kind) ==
    Cardinality({i \in 1..Len(Get(cs, p, <<>>)) : cs[p][i] = kind})
\* The cyclic successor of p in the turn order.
Successor(p) ==
    players.player_ids[(Position(players.player_ids, p) % Len(players.player_ids)) + 1]

\* What place_card(p, card) returns in the current Placement.
PlaceCardOutcome(p, card) ==
    LET r == place_card(players, hands, cards, p, card)
    IN  /\ p \notin Playing => r.err = "PlayerDoesntExist"
        /\ (p \in Playing /\ p \notin DOMAIN hands) => r.err = "OutOfCards"
        /\ (p \in Playing /\ p \in DOMAIN hands /\ HeldOf(hands, p, card) = 0) =>
              r.err = "CardNotFound"
        /\ (p \in Playing /\ HeldOf(hands, p, card) > 0) => r.err = "Ok"
        /\ r.err = "Ok" =>
              /\ \A kind \in Card :
                    HeldOf(r.hands, p, kind) =
                        HeldOf(hands, p, kind) - (IF kind = card THEN 1 ELSE 0)
              /\ p \in DOMAIN r.hands <=> hands[p].num_cards > 1
              /\ r.cards[p] = Append(StackOf(p), card)
              /\ r.current_player = Successor(p)
              /\ \A q \in PlayerIDs \ {p} :
                    /\ q \in DOMAIN r.hands <=> q \in DOMAIN hands
                    /\ q \in DOMAIN hands => r.hands[q] = hands[q]
                    /\ q \in DOMAIN r.cards <=> q \in DOMAIN cards
                    /\ q \in DOMAIN cards => r.cards[q] = cards[q]
        /\ r.err # "Ok" => r.hands = hands /\ r.cards = cards

\* C22: a successful place_card(p, card) removes exactly one card of that kind
\* from p's hand (deleting the entry when it becomes empty), appends the card
\* as the new top of p's stack, sets current_player to the cyclic successor of
\* p and leaves every other hand and stack unchanged; it fails with
\* PlayerDoesntExist if p is not playing, OutOfCards if p has no hand entry,
\* and CardNotFound if the kind is not in p's hand.
C22_PlaceCardEffect ==
    phase = "Placement" =>
        /\ \A p \in PlayerIDs : \A card \in Card : PlaceCardOutcome(p, card)
        /\ AcceptedCall("place_card") =>
              /\ Top(StackOf(result.player)) = result.card
              /\ current_player = Successor(result.player)
              /\ players \in {RosterOf(n) : n \in 1..Len(PlayerNames)}
\* The last card of a hand has just been placed, deleting the hand entry,
\* while another member already has a stack.
C22_Witness ==
    /\ phase = "Placement"
    /\ AcceptedCall("place_card")
    /\ result.player \notin DOMAIN hands
    /\ Len(StackOf(result.player)) = 1
    /\ \E q \in Playing : Len(StackOf(q)) = 1 /\ q # result.player

\* The cards a player has in hand and the cards in that player's stack.
CardsOf(hs, cs, p) ==
    (IF p \in DOMAIN hs THEN hs[p].num_cards ELSE 0) + Len(Get(cs, p, <<>>))
\* No player has more than one Skull between hand and stack.
OneSkull ==
    phase = "Placement" =>
        \A p \in PlayerIDs : HeldOf(hands, p, "Skull") + StackedOf(cards, p, "Skull") <= 1
\* A step of a Placement keeps every player's cards, of each kind.
Conserved ==
    (phase = "Placement" /\ phase' = "Placement") =>
        \A p \in PlayerIDs :
            /\ CardsOf(hands', cards', p) = CardsOf(hands, cards, p)
            /\ \A kind \in Card :
                  HeldOf(hands', p, kind) + StackedOf(cards', p, kind) =
                      HeldOf(hands, p, kind) + StackedOf(cards, p, kind)

\* C23: across any sequence of place_card calls, accepted or rejected, every
\* player's number of cards in hand plus cards in the stack stays what it was
\* in the initial Placement, and a player's hand and stack together never hold
\* more than one Skull.
C23_CardConservation == []OneSkull /\ [][Conserved]_vars
\* A player has just placed the Skull on top of a Flower.
C23_Witness ==
    /\ phase = "Placement"
    /\ AcceptedCall("place_card")
    /\ result.card = "Skull"
    /\ StackOf(result.player) = <<"Flower", "Skull">>

\* C24: in every Bidding state reached from its construction through accepted
\* make_bid calls at least one playing member's recorded bid is an Amount: the
\* Bidding never reaches a state in which every playing member has passed.
C24_LiveBidRemains ==
    phase = "Bidding" =>
        /\ \E p \in Playing : BidOf(p).kind = "Amount"
        /\ ~(\A p \in Playing : BidOf(p) = Pass)

====
